---- MODULE Spec2Model ----
(***************************************************************************)
(* GhostRider: the message processor (src/src/ghostrider/processor.py) and *)
(* the unified message model (src/src/ghostrider/models.py).               *)
(*                                                                         *)
(* Strings are TLA+ strings (sequences of characters).  Python floats are  *)
(* IEEE-754 doubles; a double x with |x| < 4 that is a multiple of 2^-57   *)
(* is the tuple <<sign, h, m, l>> with |x| * 2^57 = h*2^40 + m*2^20 + l,   *)
(* and + , - and * round to nearest, ties to even, as the hardware does.   *)
(***************************************************************************)
EXTENDS Integers, Sequences, FiniteSets, TLC

-----------------------------------------------------------------------------
(* Bounds of the model *)

\* number of phrases joined into one message content (single-message runs)
MaxPhrases == 1
\* number of message objects in the batch pipeline
NMsgs == 2
\* longest batch handed to process_batch
MaxBatch == 2
\* number of calls in a run; every call reads the clock once
MaxClock == 2
\* number of records in one provider response
MaxRecords == 2
\* number of Discord DM channels
MaxChannels == 2

-----------------------------------------------------------------------------
(* Python str *)

UpperChars == "ABCDEFGHIJKLMNOPQRSTUVWXYZ"
LowerChars == "abcdefghijklmnopqrstuvwxyz"
DigitChars == "0123456789"

CharAt(s, i) == SubSeq(s, i, i)

CharsOf(s) == { CharAt(s, i) : i \in 1..Len(s) }

\* the upper-case characters and their lower-case forms
LowerMap ==
    [ c \in CharsOf(UpperChars) |->
        CharAt(LowerChars, CHOOSE i \in 1..Len(UpperChars) : CharAt(UpperChars, i) = c) ]

UpperSet == DOMAIN LowerMap

\* str.lower() on one character
LowerChar(c) == IF c \in UpperSet THEN LowerMap[c] ELSE c

RECURSIVE StrLower(_)
\* str.lower()
StrLower(s) == IF s = "" THEN "" ELSE LowerChar(Head(s)) \o StrLower(Tail(s))

\* s.startswith(k, i-1): k occurs in s at position i (1-based)
OccursAt(k, s, i) == i + Len(k) - 1 <= Len(s) /\ SubSeq(s, i, i + Len(k) - 1) = k

\* the Python expression `k in s` on strings
StrContains(k, s) == \E i \in 1..(Len(s) - Len(k) + 1) : SubSeq(s, i, i + Len(k) - 1) = k

\* any(word in content for word in words)
AnyIn(words, content) == \E j \in 1..Len(words) : StrContains(words[j], content)

\* sum(1 for keyword in keywords if keyword in content)
CountIn(keywords, content) == Cardinality({ j \in 1..Len(keywords) : StrContains(keywords[j], content) })

-----------------------------------------------------------------------------
(* Python float *)

Limb == 1048576

FZero == <<1, 0, 0, 0>>

\* carry the limbs of a magnitude into 0..Limb-1
Carry(h, m, l) ==
    LET m1 == m + (l \div Limb)
    IN  <<h + (m1 \div Limb), m1 % Limb, l % Limb>>

\* unit in the last place (in units of 2^-57) of a magnitude with high limb h
Ulp(h) ==
    IF h < 8192 THEN 1
    ELSE IF h < 16384 THEN 2
    ELSE IF h < 32768 THEN 4
    ELSE IF h < 65536 THEN 8
    ELSE IF h < 131072 THEN 16
    ELSE IF h < 262144 THEN 32
    ELSE 64

\* round a magnitude to 53 significant bits, to nearest, ties to even
RoundMag(mag) ==
    LET u  == Ulp(mag[1])
        r  == mag[3] % u
        l0 == mag[3] - r
        up == (2 * r > u) \/ (2 * r = u /\ (l0 \div u) % 2 = 1)
    IN  Carry(mag[1], mag[2], IF up THEN l0 + u ELSE l0)

MagLess(a, b) ==
    \/ a[1] < b[1]
    \/ a[1] = b[1] /\ a[2] < b[2]
    \/ a[1] = b[1] /\ a[2] = b[2] /\ a[3] < b[3]

MagAdd(a, b) == Carry(a[1] + b[1], a[2] + b[2], a[3] + b[3])

\* a - b for a >= b
MagSub(a, b) ==
    LET l  == a[3] - b[3]
        bl == IF l < 0 THEN 1 ELSE 0
        m  == a[2] - b[2] - bl
        bm == IF m < 0 THEN 1 ELSE 0
    IN  <<a[1] - b[1] - bm, m + bm * Limb, l + bl * Limb>>

Mag(x) == <<x[2], x[3], x[4]>>

MkFloat(sign, mag) ==
    IF mag = <<0, 0, 0>> THEN FZero ELSE <<sign, mag[1], mag[2], mag[3]>>

FNeg(x) == MkFloat(0 - x[1], Mag(x))

\* x + y
FAdd(x, y) ==
    IF x[1] = y[1] THEN MkFloat(x[1], RoundMag(MagAdd(Mag(x), Mag(y))))
    ELSE IF MagLess(Mag(x), Mag(y)) THEN MkFloat(y[1], RoundMag(MagSub(Mag(y), Mag(x))))
    ELSE MkFloat(x[1], RoundMag(MagSub(Mag(x), Mag(y))))

\* x - y
FSub(x, y) == FAdd(x, FNeg(y))

\* n * x for an int n >= 0 (n converts to float exactly)
FMulInt(n, x) == MkFloat(x[1], RoundMag(Carry(n * x[2], n * x[3], n * x[4])))

\* x < y
FLess(x, y) ==
    IF x[1] # y[1] THEN x[1] < y[1]
    ELSE IF x[1] = 1 THEN MagLess(Mag(x), Mag(y))
    ELSE MagLess(Mag(y), Mag(x))

\* x <= y
FLeq(x, y) == ~FLess(y, x)

\* min(x, y) and max(x, y) as Python evaluates them (the first wins a tie)
FMin(x, y) == IF FLess(y, x) THEN y ELSE x
FMax(x, y) == IF FLess(x, y) THEN y ELSE x

\* the float literals of the program
F0_0 == FZero
F0_1 == <<1, 13107, 209715, 209716>>
F0_3 == <<1, 39321, 629145, 629144>>
F0_5 == <<1, 65536, 0, 0>>
F0_6 == <<1, 78643, 209715, 209712>>
F0_8 == <<1, 104857, 629145, 629152>>
F1_0 == <<1, 131072, 0, 0>>

-----------------------------------------------------------------------------
(* models.py *)

\* Optional[T]: None is the empty tuple, a value v is <<v>>
None == <<>>

\* MessagePlatform values
MessagePlatform == {"slack", "discord", "gmail", "sms"}

\* MessagePriority values
LOW == "low"
MEDIUM == "medium"
HIGH == "high"
URGENT == "urgent"
MessagePriority == {LOW, MEDIUM, HIGH, URGENT}

\* datetime.hour
Hours == 0..23

\* UnifiedMessage(...) with the defaults of the classification and processing fields
UnifiedMessage(id, platform, content, hour, sms_metadata) ==
    [ id                   |-> id,
      platform             |-> platform,
      content              |-> content,
      timestamp            |-> [hour |-> hour],
      sms_metadata         |-> sms_metadata,
      priority             |-> MEDIUM,
      urgency_score        |-> F0_5,
      context_tags         |-> <<>>,
      processed            |-> FALSE,
      processing_timestamp |-> None ]

\* SMSMetadata(device_id=..., phone_number=phone)
SMSMetadata(phone) == [phone_number |-> phone]

-----------------------------------------------------------------------------
(* processor.py: MessageProcessor *)

\* MessageProcessor.__init__
NewProcessor ==
    [ urgent_keywords |->
        <<"urgent", "asap", "emergency", "critical", "immediate", "help",
          "problem", "issue", "error", "failure", "down">>,
      high_priority_keywords |->
        <<"important", "priority", "deadline", "meeting", "call", "interview",
          "review", "approval", "payment", "invoice">>,
      low_priority_keywords |->
        <<"fyi", "heads up", "update", "newsletter", "notification", "reminder",
          "weekly", "monthly", "digest">> ]

\* _is_known_contact: the lookup is a stub
IsKnownContact(phone) == FALSE

\* TierOf with "elif urgency_score > 0.6" for ">= 0.6"
TierOf_StrictHigh(urgency_score) ==
    IF FLeq(F0_8, urgency_score) THEN URGENT
    ELSE IF FLess(F0_6, urgency_score) THEN HIGH
    ELSE IF FLeq(urgency_score, F0_3) THEN LOW
    ELSE MEDIUM

\* the tier of a score in the branch without keywords
TierOf(urgency_score) ==
    IF FLeq(F0_8, urgency_score) THEN URGENT
    ELSE IF FLeq(F0_6, urgency_score) THEN HIGH
    ELSE IF FLeq(urgency_score, F0_3) THEN LOW
    ELSE MEDIUM

\* AdjustedScore with "hour <= 8 or hour >= 18" for "hour < 8 or hour > 18"
AdjustedScore_HourInclusive(message) ==
    LET s0 == F0_5
        s1 == IF message.platform = "sms" /\ Len(message.content) < 50
              THEN FAdd(s0, F0_1) ELSE s0
        s2 == IF /\ message.platform = "sms"
                 /\ message.sms_metadata # None
                 /\ message.sms_metadata[1].phone_number # ""
                 /\ ~IsKnownContact(message.sms_metadata[1].phone_number)
              THEN FSub(s1, F0_1) ELSE s1
        hour == message.timestamp.hour
        s3 == IF hour <= 8 \/ hour >= 18 THEN FAdd(s2, F0_1) ELSE s2
    IN  FMax(F0_0, FMin(F1_0, s3))

\* AdjustedScore with "urgency_score += 0.2" outside the hours 8..18
AdjustedScore_NightBoost(message) ==
    LET s0 == F0_5
        s1 == IF message.platform = "sms" /\ Len(message.content) < 50
              THEN FAdd(s0, F0_1) ELSE s0
        s2 == IF /\ message.platform = "sms"
                 /\ message.sms_metadata # None
                 /\ message.sms_metadata[1].phone_number # ""
                 /\ ~IsKnownContact(message.sms_metadata[1].phone_number)
              THEN FSub(s1, F0_1) ELSE s1
        hour == message.timestamp.hour
        s3 == IF hour < 8 \/ hour > 18 THEN FAdd(s2, FAdd(F0_1, F0_1)) ELSE s2
    IN  FMax(F0_0, FMin(F1_0, s3))

\* AdjustedScore with "urgency_score -= 0.1" for a short SMS
AdjustedScore_ShortPenalty(message) ==
    LET s0 == F0_5
        s1 == IF message.platform = "sms" /\ Len(message.content) < 50
              THEN FSub(s0, F0_1) ELSE s0
        s2 == IF /\ message.platform = "sms"
                 /\ message.sms_metadata # None
                 /\ message.sms_metadata[1].phone_number # ""
                 /\ ~IsKnownContact(message.sms_metadata[1].phone_number)
              THEN FSub(s1, F0_1) ELSE s1
        hour == message.timestamp.hour
        s3 == IF hour < 8 \/ hour > 18 THEN FAdd(s2, F0_1) ELSE s2
    IN  FMax(F0_0, FMin(F1_0, s3))

\* the SMS rules and the time rule applied to the default score
AdjustedScore(message) ==
    LET s0 == F0_5
        s1 == IF message.platform = "sms" /\ Len(message.content) < 50
              THEN FAdd(s0, F0_1) ELSE s0
        s2 == IF /\ message.platform = "sms"
                 /\ message.sms_metadata # None
                 /\ message.sms_metadata[1].phone_number # ""
                 /\ ~IsKnownContact(message.sms_metadata[1].phone_number)
              THEN FSub(s1, F0_1) ELSE s1
        hour == message.timestamp.hour
        s3 == IF hour < 8 \/ hour > 18 THEN FAdd(s2, F0_1) ELSE s2
    IN  FMax(F0_0, FMin(F1_0, s3))

\* ClassifyPriority without the min(1.0, ...) of the urgent branch
ClassifyPriority_NoClamp(self, message) ==
    LET content      == StrLower(message.content)
        urgent_count == CountIn(self.urgent_keywords, content)
        high_count   == CountIn(self.high_priority_keywords, content)
        low_count    == CountIn(self.low_priority_keywords, content)
    IN  IF urgent_count > 0
        THEN <<URGENT, FAdd(F0_8, FMulInt(urgent_count, F0_1))>>
        ELSE IF high_count > 0
        THEN <<HIGH, FMin(F0_8, FAdd(F0_6, FMulInt(high_count, F0_1)))>>
        ELSE IF low_count > 0
        THEN <<LOW, FMax(F0_1, FSub(F0_3, FMulInt(low_count, F0_1)))>>
        ELSE LET urgency_score == AdjustedScore(message)
             IN  <<TierOf(urgency_score), urgency_score>>

\* ClassifyPriority with the high-priority keywords checked before the urgent ones
ClassifyPriority_HighFirst(self, message) ==
    LET content      == StrLower(message.content)
        urgent_count == CountIn(self.urgent_keywords, content)
        high_count   == CountIn(self.high_priority_keywords, content)
        low_count    == CountIn(self.low_priority_keywords, content)
    IN  IF high_count > 0
        THEN <<HIGH, FMin(F0_8, FAdd(F0_6, FMulInt(high_count, F0_1)))>>
        ELSE IF urgent_count > 0
        THEN <<URGENT, FMin(F1_0, FAdd(F0_8, FMulInt(urgent_count, F0_1)))>>
        ELSE IF low_count > 0
        THEN <<LOW, FMax(F0_1, FSub(F0_3, FMulInt(low_count, F0_1)))>>
        ELSE LET urgency_score == AdjustedScore(message)
             IN  <<TierOf(urgency_score), urgency_score>>

\* _classify_priority: the pair <<priority, urgency_score>>
ClassifyPriority(self, message) ==
    LET content      == StrLower(message.content)
        urgent_count == CountIn(self.urgent_keywords, content)
        high_count   == CountIn(self.high_priority_keywords, content)
        low_count    == CountIn(self.low_priority_keywords, content)
    IN  IF urgent_count > 0
        THEN <<URGENT, FMin(F1_0, FAdd(F0_8, FMulInt(urgent_count, F0_1)))>>
        ELSE IF high_count > 0
        THEN <<HIGH, FMin(F0_8, FAdd(F0_6, FMulInt(high_count, F0_1)))>>
        ELSE IF low_count > 0
        THEN <<LOW, FMax(F0_1, FSub(F0_3, FMulInt(low_count, F0_1)))>>
        ELSE LET urgency_score == AdjustedScore(message)
             IN  <<TierOf(urgency_score), urgency_score>>

\* the characters the URL pattern accepts after "://":
\* [a-zA-Z] | [0-9] | [$-_@.&+] (the range from '$' to '_') | [!*\(\),]
UrlChars ==
    CharsOf(LowerChars) \cup CharsOf(UpperChars) \cup CharsOf(DigitChars)
    \cup CharsOf("$%&'()*+,-./:;<=>?@[\\]^_") \cup CharsOf("!*\\(),")

\* re.search(r"http[s]?://(?:...)+", content)
HasUrl(content) ==
    \E i \in 1..Len(content) :
        \/ OccursAt("http://", content, i) /\ i + 7 <= Len(content)
             /\ CharAt(content, i + 7) \in UrlChars
        \/ OccursAt("https://", content, i) /\ i + 8 <= Len(content)
             /\ CharAt(content, i + 8) \in UrlChars

\* the characters \d and \w match (ASCII)
DigitSet == CharsOf(DigitChars)
WordSet == CharsOf(LowerChars) \cup CharsOf(UpperChars) \cup CharsOf(DigitChars) \cup {"_"}

IsDigitAt(s, i) == i >= 1 /\ i <= Len(s) /\ CharAt(s, i) \in DigitSet
IsWordAt(s, i) == i >= 1 /\ i <= Len(s) /\ CharAt(s, i) \in WordSet

\* \d{n} at position i
DigitsAt(s, i, n) == \A d \in 0..(n - 1) : IsDigitAt(s, i + d)

\* [-.]? at position i: the position after it
SkipSep(s, i) == IF i <= Len(s) /\ CharAt(s, i) \in {"-", "."} THEN i + 1 ELSE i

\* \b\d{3}[-.]?\d{3}[-.]?\d{4}\b matched at position i
PhoneAt(s, i) ==
    /\ ~IsWordAt(s, i - 1)
    /\ DigitsAt(s, i, 3)
    /\ LET j == SkipSep(s, i + 3)
       IN  /\ DigitsAt(s, j, 3)
           /\ LET k == SkipSep(s, j + 3)
              IN  DigitsAt(s, k, 4) /\ ~IsWordAt(s, k + 4)

\* re.search(r"\b\d{3}[-.]?\d{3}[-.]?\d{4}\b", content)
HasPhone(content) == \E i \in 1..Len(content) : PhoneAt(content, i)

\* tags.append(tag) if cond
AppendIf(tags, cond, tag) == IF cond THEN Append(tags, tag) ELSE tags

\* ExtractContextTags matching message.content as it is, not lower-cased
ExtractContextTags_NoLower(message) ==
    LET content == message.content
        t0 == <<"platform:" \o message.platform>>
        t1 == AppendIf(t0, AnyIn(<<"meeting", "call", "zoom", "teams">>, content), "meeting")
        t2 == AppendIf(t1, AnyIn(<<"payment", "invoice", "bill", "charge">>, content), "financial")
        t3 == AppendIf(t2, AnyIn(<<"password", "login", "security", "account">>, content), "security")
        t4 == AppendIf(t3, AnyIn(<<"delivery", "package", "shipped", "tracking">>, content), "delivery")
        t5 == AppendIf(t4, HasUrl(content), "contains-link")
        t6 == AppendIf(t5, HasPhone(content), "contains-phone")
        t7 == AppendIf(t6, AnyIn(<<"today", "tomorrow", "asap", "urgent">>, content), "time-sensitive")
    IN  t7

\* ExtractContextTags appending to message.context_tags instead of a new list
ExtractContextTags_Accumulate(message) ==
    LET content == StrLower(message.content)
        t0 == Append(message.context_tags, "platform:" \o message.platform)
        t1 == AppendIf(t0, AnyIn(<<"meeting", "call", "zoom", "teams">>, content), "meeting")
        t2 == AppendIf(t1, AnyIn(<<"payment", "invoice", "bill", "charge">>, content), "financial")
        t3 == AppendIf(t2, AnyIn(<<"password", "login", "security", "account">>, content), "security")
        t4 == AppendIf(t3, AnyIn(<<"delivery", "package", "shipped", "tracking">>, content), "delivery")
        t5 == AppendIf(t4, HasUrl(content), "contains-link")
        t6 == AppendIf(t5, HasPhone(content), "contains-phone")
        t7 == AppendIf(t6, AnyIn(<<"today", "tomorrow", "asap", "urgent">>, content), "time-sensitive")
    IN  t7

\* _extract_context_tags
ExtractContextTags(message) ==
    LET content == StrLower(message.content)
        t0 == <<"platform:" \o message.platform>>
        t1 == AppendIf(t0, AnyIn(<<"meeting", "call", "zoom", "teams">>, content), "meeting")
        t2 == AppendIf(t1, AnyIn(<<"payment", "invoice", "bill", "charge">>, content), "financial")
        t3 == AppendIf(t2, AnyIn(<<"password", "login", "security", "account">>, content), "security")
        t4 == AppendIf(t3, AnyIn(<<"delivery", "package", "shipped", "tracking">>, content), "delivery")
        t5 == AppendIf(t4, HasUrl(content), "contains-link")
        t6 == AppendIf(t5, HasPhone(content), "contains-phone")
        t7 == AppendIf(t6, AnyIn(<<"today", "tomorrow", "asap", "urgent">>, content), "time-sensitive")
    IN  t7

-----------------------------------------------------------------------------
(* The messages the model feeds to the processor *)

\* message texts: texts of tests/test_message_processor.py, a text of exactly
\* 50 characters without keywords, and texts that hit one, two or three
\* keywords of one table or keywords of all three tables
Phrases ==
    { "URGENT: Server is down! Need help ASAP!",
      "Important meeting reminder for tomorrow",
      "FYI: Weekly newsletter update",
      "Check out this link: https://example.com",
      "Call me at 555-123-4567 when you get this",
      "Just a normal message with no special keywords ok.",
      "Your invoice payment of $500 is due today",
      "Payment error: update login, package not shipped",
      "Priority review before the deadline",
      "reminder" }

RECURSIVE Joined(_)
\* the texts made of at most n phrases
Joined(n) ==
    IF n = 0 THEN {""}
    ELSE LET prev == Joined(n - 1)
         IN  prev \cup { IF c = "" THEN p ELSE c \o " " \o p : c \in prev, p \in Phrases }

Contents == Joined(MaxPhrases)

\* platform and sms_metadata as the adapters build them: only the SMS adapter
\* sets sms_metadata, and its phone number may be the empty string
Senders ==
    { <<"sms", None>>, <<"sms", <<SMSMetadata("")>>>>, <<"sms", <<SMSMetadata("+1234567890")>>>>,
      <<"discord", None>>, <<"slack", None>>, <<"gmail", None>> }

\* message.id of the i-th message object
IdOf(i) == "sms_" \o ToString(i)

\* every message a classifier run starts from
ClassifierInputs ==
    { UnifiedMessage(IdOf(1), s[1], c, h, s[2]) : s \in Senders, c \in Contents, h \in Hours }

\* sender and hour of the single-message runs
Envelopes ==
    { <<"sms", <<SMSMetadata("+1234567890")>>, 23>>, <<"sms", <<SMSMetadata("+1234567890")>>, 14>>,
      <<"sms", None, 7>>, <<"discord", None, 19>>, <<"gmail", None, 8>> }

OneInputs ==
    { UnifiedMessage(IdOf(1), e[1], c, e[3], e[2]) : e \in Envelopes, c \in Contents }

\* the messages of the batch pipeline: one per tier
Profile(i, k) ==
    CASE k = 1 -> UnifiedMessage(IdOf(i), "sms", "URGENT: Server is down! Need help ASAP!", 14,
                                 <<SMSMetadata("+1234567890")>>)
      [] k = 2 -> UnifiedMessage(IdOf(i), "sms", "Important meeting reminder for tomorrow", 14,
                                 <<SMSMetadata("+1234567890")>>)
      [] k = 3 -> UnifiedMessage(IdOf(i), "discord", "FYI: Weekly newsletter update", 9, None)
      [] k = 4 -> UnifiedMessage(IdOf(i), "sms", "Check out this link: https://example.com", 23,
                                 <<SMSMetadata("+1234567890")>>)

\* the kinds of message of the pipeline runs
ProfileKinds == 1..4

-----------------------------------------------------------------------------
(* processor.py: process_batch *)

\* the classifier and the tagger are pure: their values on the messages the
\* runs start from are computed once
FreshMessages ==
    OneInputs \cup { Profile(i, k) : i \in 1..NMsgs, k \in ProfileKinds }

ClassifyMemo == [ message \in FreshMessages |-> ClassifyPriority(NewProcessor, message) ]
TagsMemo == [ message \in FreshMessages |-> ExtractContextTags(message) ]

\* self._classify_priority(message)
Classify(self, message) ==
    IF self = NewProcessor /\ message \in FreshMessages THEN ClassifyMemo[message]
    ELSE ClassifyPriority(self, message)

\* self._extract_context_tags(message)
Tags(self, message) ==
    IF message \in FreshMessages THEN TagsMemo[message]
    ELSE ExtractContextTags(message)

\* what the two calls inside the try block do for one message: return, or
\* raise an exception e with the text str(e)
NoFault == [at |-> "none", text |-> ""]
Faults ==
    { NoFault,
      [at |-> "classify", text |-> "Test error"],
      [at |-> "tags", text |-> ""] }

\* MessageProcessingResult(...) of the try block
SuccessResult(message, priority, urgency_score, context_tags) ==
    [ message_id         |-> message.id,
      success            |-> TRUE,
      priority_assigned  |-> priority,
      urgency_score      |-> urgency_score,
      context_tags       |-> context_tags,
      processing_time_ms |-> 0,
      error              |-> None ]

\* MessageProcessingResult(...) of the except block
FailureResult(message, e) ==
    [ message_id         |-> message.id,
      success            |-> FALSE,
      priority_assigned  |-> MEDIUM,
      urgency_score      |-> F0_5,
      context_tags       |-> <<>>,
      processing_time_ms |-> 0,
      error              |-> <<e>> ]

\* MarkProcessed without the assignment to message.context_tags
MarkProcessed_NoTags(message, priority, urgency_score, context_tags, t) ==
    [ message EXCEPT !.priority = priority,
                     !.urgency_score = urgency_score,
                     !.processed = TRUE,
                     !.processing_timestamp = <<t>> ]

\* MarkProcessed without the assignment to message.processing_timestamp
MarkProcessed_NoTimestamp(message, priority, urgency_score, context_tags, t) ==
    [ message EXCEPT !.priority = priority,
                     !.urgency_score = urgency_score,
                     !.context_tags = context_tags,
                     !.processed = TRUE ]

\* MarkProcessed without the assignment message.processed = True
MarkProcessed_NoFlag(message, priority, urgency_score, context_tags, t) ==
    [ message EXCEPT !.priority = priority,
                     !.urgency_score = urgency_score,
                     !.context_tags = context_tags,
                     !.processing_timestamp = <<t>> ]

\* the message after the assignments of the try block
MarkProcessed(message, priority, urgency_score, context_tags, t) ==
    [ message EXCEPT !.priority = priority,
                     !.urgency_score = urgency_score,
                     !.context_tags = context_tags,
                     !.processed = TRUE,
                     !.processing_timestamp = <<t>> ]

\* the try block once both calls have returned: the assignments and the result
Processed(message, classified, context_tags, t) ==
    [ message |-> MarkProcessed(message, classified[1], classified[2], context_tags, t),
      results |-> <<SuccessResult(message, classified[1], classified[2], context_tags)>> ]

\* Failed with message.processed = True set before the calls of the try block
Failed_MarksProcessed(message, e) ==
    [message |-> [message EXCEPT !.processed = TRUE], results |-> <<FailureResult(message, e)>>]

\* the except block: the message is as it was
Failed(message, e) ==
    [message |-> message, results |-> <<FailureResult(message, e)>>]

\* ProcessOne without "if message.processed: continue"
ProcessOne_NoSkip(self, message, fault, t) ==
    IF fault.at # "none" THEN Failed(message, fault.text)
    ELSE Processed(message, Classify(self, message), Tags(self, message), t)

\* the body of the loop for one message at time t: the message afterwards
\* and the results it appends
ProcessOne(self, message, fault, t) ==
    IF message.processed THEN [message |-> message, results |-> <<>>]
    ELSE IF fault.at # "none" THEN Failed(message, fault.text)
    ELSE Processed(message, Classify(self, message), Tags(self, message), t)

RECURSIVE BatchLoop(_, _, _, _, _, _, _)
RECURSIVE BatchNext(_, _, _, _, _, _, _, _)

\* BatchNext with the loop left at the first failure result
BatchNext_AbortOnFailure(self, batch, faults, t, i, msgs, results, step) ==
    IF step.results # <<>> /\ ~step.results[1].success
    THEN [messages |-> [msgs EXCEPT ![batch[i]] = step.message], results |-> results \o step.results]
    ELSE BatchLoop(self, batch, faults, t, i + 1,
                   [msgs EXCEPT ![batch[i]] = step.message], results \o step.results)

\* the end of one iteration: the message is written back, the result appended
BatchNext(self, batch, faults, t, i, msgs, results, step) ==
    BatchLoop(self, batch, faults, t, i + 1,
              [msgs EXCEPT ![batch[i]] = step.message], results \o step.results)

\* for message in batch.messages, from position i on
BatchLoop(self, batch, faults, t, i, msgs, results) ==
    IF i > Len(batch) THEN [messages |-> msgs, results |-> results]
    ELSE BatchNext(self, batch, faults, t, i, msgs, results,
                   ProcessOne(self, msgs[batch[i]], faults[i], t))

-----------------------------------------------------------------------------
(* State *)

VARIABLES
    processor,  \* the MessageProcessor: its three keyword lists
    messages,   \* the UnifiedMessage objects, by object identity
    now,        \* datetime.now()
    call,       \* the last call made on the processor or an adapter and what it returned
    processed_message_ids,  \* TextBeeSMSPlatform.processed_message_ids
    driver,     \* the polling loop that was started, on which adapter, with which callback
    is_running, \* the flag the loop tests: the adapter's is_running, the app's running
    task,       \* where the task running the loop is
    stopped,    \* stop_receiving / stop_polling has been called
    iteration,  \* what the last iteration of the loop did
    app         \* the GhostRiderApp: running, platforms, tasks, and where start and shutdown are

vars == <<processor, messages, now, call, processed_message_ids,
          driver, is_running, task, stopped, iteration, app>>

\* the state of the processor and of the messages it is given
processorVars == <<processor, messages>>

\* the state of the platform adapters
platformVars == <<processed_message_ids>>

\* the adapters after construction
PlatformInit == processed_message_ids = {}

\* the state of a polling loop
driverVars == <<driver, is_running, task, stopped, iteration>>

\* no polling loop
NoDriver == [kind |-> "none", adapter |-> "none", callback |-> FALSE]

\* no polling loop was started
DriverIdle ==
    /\ driver = NoDriver
    /\ is_running = FALSE
    /\ task = "none"
    /\ stopped = FALSE
    /\ iteration = None

\* the state of the application
appVars == <<app>>

\* GhostRiderApp(config): nothing registered, not running, no tasks; setup is
\* what start() made of each platform, connected the set of adapters whose
\* connect() succeeded, disconnects the disconnect() calls made so far
NewApp ==
    [ running |-> FALSE, platforms |-> <<>>, tasks |-> <<>>, phase |-> "constructed",
      setup |-> [sms |-> "disabled", discord |-> "disabled"],
      connected |-> {}, shutdown |-> "idle", next |-> 1, raised |-> FALSE,
      disconnects |-> <<>> ]

\* the application was constructed and not started
AppIdle == app = NewApp

NoCall == [op |-> "none", m |-> 0, batch |-> <<>>, faults |-> <<>>, ret |-> <<>>]

\* the batches: lists of distinct message objects, in the order of delivery
Batches ==
    UNION { { b \in [1..n -> DOMAIN messages] : \A i, j \in 1..n : i < j => b[i] < b[j] } : n \in 0..MaxBatch }

\* what the calls made for the messages of a batch do; no call is made for a
\* message that is already processed
FaultsFor(batch) ==
    { f \in [1..Len(batch) -> Faults] :
        \A p \in 1..Len(batch) : messages[batch[p]].processed => f[p] = NoFault }

\* process_batch(batch); batch.messages lists message objects
ProcessBatch(batch, faults) ==
    /\ now < MaxClock
    /\ messages' = BatchLoop(processor, batch, faults, now, 1, messages, <<>>).messages
    /\ call' = [ op |-> "process_batch", m |-> 0, batch |-> batch, faults |-> faults,
                 ret |-> BatchLoop(processor, batch, faults, now, 1, messages, <<>>).results ]
    /\ now' = now + 1
    /\ UNCHANGED <<processor, platformVars, driverVars, appVars>>

\* a direct call processor._classify_priority(message)
CallClassify(m) ==
    /\ call' = [op |-> "classify", m |-> m, batch |-> <<>>, faults |-> <<>>, ret |-> Classify(processor, messages[m])]
    /\ UNCHANGED <<processor, messages, now, platformVars, driverVars, appVars>>

\* a direct call processor._extract_context_tags(message)
CallExtract(m) ==
    /\ call' = [op |-> "tags", m |-> m, batch |-> <<>>, faults |-> <<>>, ret |-> Tags(processor, messages[m])]
    /\ UNCHANGED <<processor, messages, now, platformVars, driverVars, appVars>>

\* the batch pipeline: NMsgs messages as the adapters deliver them
Init ==
    /\ processor = NewProcessor
    /\ messages \in { ms \in [1..NMsgs -> UNION { { Profile(i, k) : k \in ProfileKinds } : i \in 1..NMsgs }] :
                        \A i \in 1..NMsgs : ms[i].id = IdOf(i) }
    /\ now = 0
    /\ call = NoCall
    /\ PlatformInit
    /\ DriverIdle
    /\ AppIdle

Next == \E batch \in Batches : \E faults \in FaultsFor(batch) : ProcessBatch(batch, faults)

Spec == Init /\ [][Next]_vars

\* one message, every text, the direct calls and process_batch
InitOne ==
    /\ processor = NewProcessor
    /\ messages \in [1..1 -> OneInputs]
    /\ now = 0
    /\ call = NoCall
    /\ PlatformInit
    /\ DriverIdle
    /\ AppIdle

NextOne ==
    \/ \E batch \in Batches : \E faults \in FaultsFor(batch) : ProcessBatch(batch, faults)
    \/ \E m \in DOMAIN messages : CallClassify(m)
    \/ \E m \in DOMAIN messages : CallExtract(m)

SpecOne == InitOne /\ [][NextOne]_vars

\* the classifier alone on every input
InitClassifier ==
    /\ processor = NewProcessor
    /\ messages \in [1..1 -> ClassifierInputs]
    /\ now = 0
    /\ call = NoCall
    /\ PlatformInit
    /\ DriverIdle
    /\ AppIdle

NextClassifier ==
    \/ \E m \in DOMAIN messages : CallClassify(m)
    \/ \E m \in DOMAIN messages : CallExtract(m)

SpecClassifier == InitClassifier /\ [][NextClassifier]_vars

-----------------------------------------------------------------------------
(* platforms/sms.py: TextBeeSMSPlatform *)

\* the sequences of at most n elements of S
RECURSIVE SeqsUpTo(_, _)
SeqsUpTo(S, n) ==
    IF n = 0 THEN {<<>>}
    ELSE LET prev == SeqsUpTo(S, n - 1)
         IN  prev \cup { Append(q, x) : q \in { r \in prev : Len(r) = n - 1 }, x \in S }

\* the objects of the "data" list of a get-received-sms response: "_id" (""
\* when the key is missing), "message" (None for a JSON null), "sender" and
\* the hour of "receivedAt"; and an element that is no JSON object
SmsRecords ==
    { [value |-> "null"],
      [_id |-> "",  message |-> <<"Hello">>, sender |-> "+1234567890", receivedAt |-> 9],
      [_id |-> "1", message |-> <<"Hello">>, sender |-> "+1234567890", receivedAt |-> 9],
      [_id |-> "1", message |-> None,        sender |-> "+1234567890", receivedAt |-> 9],
      [_id |-> "2", message |-> <<"Call me at 555-123-4567 when you get this">>,
                    sender |-> "", receivedAt |-> 20],
      [_id |-> "2", message |-> None,        sender |-> "", receivedAt |-> 20] }

\* what session.get(...) / raise_for_status() / response.json() / data.get(...)
\* do: raise a requests.exceptions.RequestException (connection error,
\* timeout, HTTP error status), raise another exception (a body that is no
\* JSON object), or give the "data" list
SmsResponses ==
    { [kind |-> "request_error", data |-> <<>>], [kind |-> "other_error", data |-> <<>>] }
    \cup { [kind |-> "ok", data |-> d] : d \in SeqsUpTo(SmsRecords, MaxRecords) }

\* _convert_to_unified_message; the UnifiedMessage constructor rejects a
\* content that is no string
SmsConvertible(sms_data) == sms_data.message # None
SmsConvert(sms_data) ==
    UnifiedMessage("sms_" \o sms_data._id, "sms", sms_data.message[1], sms_data.receivedAt,
                   <<SMSMetadata(sms_data.sender)>>)

\* msg_data.get exists: the element is a dict
IsDict(msg_data) == "_id" \in DOMAIN msg_data

\* one iteration of the loop of receive_messages; msg_data.get("_id", "")
\* stands outside the inner try, so on an element that is no dict the
\* AttributeError leaves the loop
SmsStep(msg_data, st) ==
    IF st.raised THEN st
    ELSE IF ~IsDict(msg_data) THEN [st EXCEPT !.raised = TRUE]
    ELSE IF msg_data._id \in st.seen THEN st
    ELSE IF ~SmsConvertible(msg_data) THEN st
    ELSE [st EXCEPT !.seen = st.seen \cup {msg_data._id},
                    !.ret = Append(st.ret, SmsConvert(msg_data))]

\* for msg_data in messages, from position i on
RECURSIVE SmsLoop(_, _, _)
SmsLoop(data, i, st) ==
    IF i > Len(data) THEN st ELSE SmsLoop(data, i + 1, SmsStep(data[i], st))

\* return unified_messages, or the exception that left the loop
SmsOutcome(st) ==
    [ret |-> IF st.raised THEN None ELSE st.ret, raised |-> st.raised, seen |-> st.seen]

\* receive_messages: what it returns, whether it raises, and the seen set afterwards
SmsReceive(seen, response) ==
    IF response.kind = "request_error" THEN [ret |-> <<>>, raised |-> FALSE, seen |-> seen]
    ELSE IF response.kind = "other_error" THEN [ret |-> None, raised |-> TRUE, seen |-> seen]
    ELSE SmsOutcome(SmsLoop(response.data, 1, [seen |-> seen, ret |-> <<>>, raised |-> FALSE]))

\* what session.post(...) / raise_for_status() / response.json() / result.get(...)
\* do in send_message: raise a RequestException, raise another exception, or
\* give the "success" entry of the body
SendResponses ==
    { [kind |-> "request_error", success |-> FALSE],
      [kind |-> "other_error", success |-> FALSE],
      [kind |-> "ok", success |-> TRUE],
      [kind |-> "ok", success |-> FALSE] }

\* send_message
SmsSend(response) ==
    IF response.kind = "request_error" THEN [ret |-> <<FALSE>>, raised |-> FALSE]
    ELSE IF response.kind = "other_error" THEN [ret |-> None, raised |-> TRUE]
    ELSE [ret |-> <<response.success>>, raised |-> FALSE]

\* the record of a call on an adapter
AdapterCall(op, adapter, response, limit, since, ret, raised) ==
    [ op |-> op, adapter |-> adapter, response |-> response, limit |-> limit,
      since |-> since, ret |-> ret, raised |-> raised ]

\* the limit and since arguments of get_message_history
Limits == 1..MaxRecords
Sinces == {None, <<9>>, <<20>>}

\* await sms_platform.receive_messages()
SmsReceiveMessages(response) ==
    /\ now < MaxClock
    /\ processed_message_ids' = SmsReceive(processed_message_ids, response).seen
    /\ call' = AdapterCall("receive_messages", "sms", response, 0, None,
                           SmsReceive(processed_message_ids, response).ret,
                           SmsReceive(processed_message_ids, response).raised)
    /\ now' = now + 1
    /\ UNCHANGED <<processorVars, driverVars, appVars>>

\* await sms_platform.get_message_history(limit, since)
SmsGetMessageHistory(limit, since, response) ==
    /\ now < MaxClock
    /\ processed_message_ids' = SmsReceive(processed_message_ids, response).seen
    /\ call' = AdapterCall("get_message_history", "sms", response, limit, since,
                           SmsReceive(processed_message_ids, response).ret,
                           SmsReceive(processed_message_ids, response).raised)
    /\ now' = now + 1
    /\ UNCHANGED <<processorVars, driverVars, appVars>>

\* await sms_platform.send_message(recipient, content)
SmsSendMessage(response) ==
    /\ now < MaxClock
    /\ call' = AdapterCall("send_message", "sms", response, 0, None,
                           SmsSend(response).ret, SmsSend(response).raised)
    /\ now' = now + 1
    /\ UNCHANGED <<processorVars, platformVars, driverVars, appVars>>

-----------------------------------------------------------------------------
(* platforms/discord.py: DiscordPlatform, with current_user_id set *)

\* the message j of DM channel c, newest first: DiscordMessage(...) and then
\* _convert_to_unified_message
DiscordConvert(c, j) ==
    UnifiedMessage("discord_" \o ToString(c) \o "_" \o ToString(j), "discord", "Hello",
                   IF j = 1 THEN 20 ELSE 9, None)

\* what the Discord API does: session.get raises (network failure), answers
\* the channel list with a status other than 200, or answers with the DM
\* channels; channels[c] is the number of messages in channel c
DiscordResponses ==
    { [kind |-> "network_error", channels |-> <<>>], [kind |-> "status_error", channels |-> <<>>] }
    \cup { [kind |-> "ok", channels |-> ch] : ch \in SeqsUpTo(0..MaxRecords, MaxChannels) }

\* fetch_channel_messages(channel_id, user_id, limit) and the conversion of
\* what it returns: the API answers with the newest limit messages
DiscordChannelMessages(c, n, limit) ==
    [ j \in 1..(IF n < limit THEN n ELSE limit) |-> DiscordConvert(c, j) ]

\* for channel in channels, from position c on
RECURSIVE DiscordLoop(_, _, _, _)
DiscordLoop(channels, c, limit, all_messages) ==
    IF c > Len(channels) THEN all_messages
    ELSE DiscordLoop(channels, c + 1, limit,
                     all_messages \o DiscordChannelMessages(c, channels[c], limit))

\* the body shared by receive_messages (limit=10) and get_message_history
DiscordFetch(response, limit) ==
    IF response.kind = "network_error" THEN [ret |-> None, raised |-> TRUE]
    ELSE IF response.kind = "status_error" THEN [ret |-> <<>>, raised |-> FALSE]
    ELSE [ret |-> DiscordLoop(response.channels, 1, limit, <<>>), raised |-> FALSE]

\* the limit receive_messages passes to fetch_channel_messages
DiscordReceiveLimit == 10

\* await discord_platform.receive_messages()
DiscordReceiveMessages(response) ==
    /\ now < MaxClock
    /\ call' = AdapterCall("receive_messages", "discord", response, 0, None,
                           DiscordFetch(response, DiscordReceiveLimit).ret,
                           DiscordFetch(response, DiscordReceiveLimit).raised)
    /\ now' = now + 1
    /\ UNCHANGED <<processorVars, platformVars, driverVars, appVars>>

\* await discord_platform.get_message_history(limit, since)
DiscordGetMessageHistory(limit, since, response) ==
    /\ now < MaxClock
    /\ call' = AdapterCall("get_message_history", "discord", response, limit, since,
                           DiscordFetch(response, limit).ret,
                           DiscordFetch(response, limit).raised)
    /\ now' = now + 1
    /\ UNCHANGED <<processorVars, platformVars, driverVars, appVars>>

\* await discord_platform.send_message(recipient, content)
DiscordSendMessage ==
    /\ now < MaxClock
    /\ call' = AdapterCall("send_message", "discord", [kind |-> "none"], 0, None,
                           <<FALSE>>, FALSE)
    /\ now' = now + 1
    /\ UNCHANGED <<processorVars, platformVars, driverVars, appVars>>

\* the two adapters, called directly
InitAdapter ==
    /\ processor = NewProcessor
    /\ messages = <<>>
    /\ now = 0
    /\ call = NoCall
    /\ PlatformInit
    /\ DriverIdle
    /\ AppIdle

NextAdapter ==
    \/ \E response \in SmsResponses : SmsReceiveMessages(response)
    \/ \E limit \in Limits, since \in Sinces, response \in SmsResponses :
          SmsGetMessageHistory(limit, since, response)
    \/ \E response \in SendResponses : SmsSendMessage(response)
    \/ \E response \in DiscordResponses : DiscordReceiveMessages(response)
    \/ \E limit \in Limits, since \in Sinces, response \in DiscordResponses :
          DiscordGetMessageHistory(limit, since, response)
    \/ DiscordSendMessage

SpecAdapter == InitAdapter /\ [][NextAdapter]_vars

-----------------------------------------------------------------------------
(* The polling loops: platforms/base.py start_receiving, platforms/sms.py
   start_polling, core.py _monitor_platform *)

\* await asyncio.sleep(5) in the except branch of start_receiving and of _monitor_platform
RetryDelay == 5
\* await asyncio.sleep(1) in the else branch of start_receiving
CheckDelay == 1
\* TextBeeConfig.polling_interval
polling_interval == 10
\* ProcessingConfig.processing_interval
processing_interval == 5

\* the loops that can be started: start_receiving on either adapter and
\* start_polling on the SMS adapter with an optional callback, and the
\* application's _monitor_platform, which always hands to _process_message_batch
Drivers ==
    { [kind |-> "start_receiving", adapter |-> a, callback |-> cb] :
          a \in {"sms", "discord"}, cb \in BOOLEAN }
    \cup { [kind |-> "start_polling", adapter |-> "sms", callback |-> cb] : cb \in BOOLEAN }
    \cup { [kind |-> "_monitor_platform", adapter |-> a, callback |-> TRUE] :
               a \in {"sms", "discord"} }

\* MessageBatch(messages=..., batch_id=f"{platform_name}_...", platform=..., total_count=...)
MessageBatch(msgs, batch_id, platform, total_count) ==
    [messages |-> msgs, batch_id |-> batch_id, platform |-> platform,
     total_count |-> total_count]

\* await platform.receive_messages() for the adapter of the loop
AdapterReceive(adapter, seen, response) ==
    IF adapter = "sms" THEN SmsReceive(seen, response)
    ELSE [ ret    |-> DiscordFetch(response, DiscordReceiveLimit).ret,
           raised |-> DiscordFetch(response, DiscordReceiveLimit).raised,
           seen   |-> seen ]

\* a loop that builds the batch without counting the messages
BatchOf_NoCount(d, msgs) ==
    MessageBatch(msgs, d.adapter, IF d.kind = "start_polling" THEN "sms" ELSE d.adapter, 0)

\* the batch a loop builds from a non-empty result
BatchOf(d, msgs) ==
    IF d.kind = "_monitor_platform"
    THEN MessageBatch(msgs, d.adapter, msgs[1].platform, Len(msgs))
    ELSE IF d.kind = "start_polling"
    THEN MessageBatch(msgs, "sms", "sms", Len(msgs))
    ELSE MessageBatch(msgs, d.adapter, d.adapter, Len(msgs))

\* if messages and callback: / if messages:
Hands(d, received) ==
    /\ ~received.raised
    /\ received.ret # <<>>
    /\ d.kind = "_monitor_platform" \/ d.callback

\* the sleep that ends an iteration
Delay(d, raised) ==
    IF d.kind = "start_receiving" THEN (IF raised THEN RetryDelay ELSE CheckDelay)
    ELSE IF d.kind = "start_polling" THEN polling_interval
    ELSE IF raised THEN RetryDelay
    ELSE IF d.adapter = "sms" THEN polling_interval
    ELSE processing_interval

\* what happens inside the callback, or inside _process_message_batch: it
\* returns, or an exception is raised in it
CallbackOutcomes(d) == {"ok", "raise"}

\* a _process_message_batch without its try/except
Propagates_Always(d, cb) == cb = "raise"

\* the exception reaches the loop: _process_message_batch catches every
\* Exception itself, a callback does not
Propagates(d, cb) == d.kind # "_monitor_platform" /\ cb = "raise"

\* the try block of the iteration raised
Raises(d, received, cb) == received.raised \/ (Hands(d, received) /\ Propagates(d, cb))

\* one pass through the body of the while loop; fetch is what the provider
\* did during receive_messages, callback what happened inside the callback,
\* turn the parity of the number of receive_messages calls made so far
LoopBody(d, fetch, received, cb, turn) ==
    [ fetch    |-> fetch,
      ret      |-> received.ret,
      raised   |-> Raises(d, received, cb),
      handed   |-> IF Hands(d, received) THEN <<BatchOf(d, received.ret)>> ELSE <<>>,
      callback |-> IF Hands(d, received) THEN cb ELSE "none",
      delay    |-> Delay(d, Raises(d, received, cb)),
      turn     |-> turn ]

\* the parity of the call that follows the iteration it
NextTurn(it) == IF it = None THEN 1 ELSE 1 - it[1].turn

\* the responses the provider of an adapter can give
IsResponseOf(adapter, response) ==
    IF adapter = "sms" THEN response \in SmsResponses ELSE response \in DiscordResponses

\* the first step of the task: self.is_running = True (the application sets
\* running before it creates the tasks)
TaskStart ==
    /\ task = "scheduled"
    /\ task' = "running"
    /\ is_running' = (IF driver.kind = "_monitor_platform" THEN is_running ELSE TRUE)
    /\ UNCHANGED <<processorVars, appVars, now, call, platformVars, driver, stopped, iteration>>

\* while self.is_running: one iteration
Iterate(response, cb) ==
    /\ task = "running"
    /\ is_running
    /\ IsResponseOf(driver.adapter, response)
    /\ cb \in CallbackOutcomes(driver)
    /\ iteration' = <<LoopBody(driver, response.kind,
                               AdapterReceive(driver.adapter, processed_message_ids, response),
                               cb, NextTurn(iteration))>>
    /\ processed_message_ids' =
           AdapterReceive(driver.adapter, processed_message_ids, response).seen
    /\ UNCHANGED <<processorVars, appVars, now, call, driver, is_running, task, stopped>>

\* while self.is_running: the flag is false
LoopExit ==
    /\ task = "running"
    /\ ~is_running
    /\ task' = "done"
    /\ UNCHANGED <<processorVars, appVars, now, call, platformVars, driver, is_running, stopped,
                   iteration>>

\* stop_receiving / stop_polling
StopReceiving ==
    /\ driver.kind \in {"start_receiving", "start_polling"}
    /\ is_running' = FALSE
    /\ stopped' = TRUE
    /\ UNCHANGED <<processorVars, appVars, now, call, platformVars, driver, task, iteration>>

\* a loop of one of the three kinds has been handed to asyncio.create_task
InitDriver ==
    /\ processor = NewProcessor
    /\ messages = <<>>
    /\ now = 0
    /\ call = NoCall
    /\ PlatformInit
    /\ driver \in Drivers
    /\ is_running = (driver.kind = "_monitor_platform")
    /\ task = "scheduled"
    /\ stopped = FALSE
    /\ iteration = None
    /\ AppIdle

\* a step of the task
TaskStep ==
    \/ TaskStart
    \/ \E response \in SmsResponses \cup DiscordResponses, cb \in {"ok", "raise"} :
          Iterate(response, cb)
    \/ LoopExit

NextDriver ==
    \/ TaskStep
    \/ StopReceiving

SpecDriver == InitDriver /\ [][NextDriver]_vars

\* the event loop runs a task that is ready, and the awaited calls return
SpecDriverFair == SpecDriver /\ WF_vars(TaskStep)

\* the provider responses that decide what an iteration does: each kind of
\* failure, no message, and one message
RetryResponses ==
    { [kind |-> "request_error", data |-> <<>>], [kind |-> "other_error", data |-> <<>>],
      [kind |-> "ok", data |-> <<>>],
      [kind |-> "ok", data |-> <<[_id |-> "1", message |-> <<"Hello">>,
                                  sender |-> "+1234567890", receivedAt |-> 9]>>] }
    \cup { [kind |-> "network_error", channels |-> <<>>],
           [kind |-> "status_error", channels |-> <<>>],
           [kind |-> "ok", channels |-> <<>>],
           [kind |-> "ok", channels |-> <<1>>] }

\* a step of the task with one of these responses
RetryStep ==
    \/ TaskStart
    \/ \E response \in RetryResponses, cb \in {"ok", "raise"} : Iterate(response, cb)
    \/ LoopExit

NextRetry ==
    \/ RetryStep
    \/ StopReceiving

\* the loops under these responses, with the event loop running a task that
\* is ready and the awaited calls returning
SpecRetryFair == InitDriver /\ [][NextRetry]_vars /\ WF_vars(RetryStep)

-----------------------------------------------------------------------------
(* core.py: GhostRiderApp start, the monitor tasks, shutdown *)

\* what the configuration and the providers make of the setup of a platform:
\* it is disabled, its connect() raises, it connects (and, for Discord, the
\* configuration has no client_id)
SmsSetups == {"disabled", "connect_fails", "ok"}
DiscordSetups == {"disabled", "connect_fails", "no_client_id", "ok"}

\* self.platforms after _setup_sms_platform and _setup_discord_platform
Registered(sms, discord) ==
    (IF sms = "ok" THEN <<"sms">> ELSE <<>>) \o (IF discord = "ok" THEN <<"discord">> ELSE <<>>)

\* the adapters whose connect() returned
Connected(sms, discord) ==
    (IF sms = "ok" THEN {"sms"} ELSE {})
    \cup (IF discord \in {"no_client_id", "ok"} THEN {"discord"} ELSE {})

\* asyncio.create_task(self._monitor_platform(platform_name, platform))
NewTask(platform_name) == [platform |-> platform_name, pc |-> "scheduled", cancelled |-> FALSE]

\* a start() that lets the exception of a failed connect() escape
Start_AbortOnFailure(sms, discord) ==
    /\ app.phase = "constructed"
    /\ app.shutdown = "idle"
    /\ app' = IF "connect_fails" \in {sms, discord}
              THEN [app EXCEPT !.setup = [sms |-> sms, discord |-> discord],
                               !.phase = "aborted"]
              ELSE [app EXCEPT
                      !.setup = [sms |-> sms, discord |-> discord],
                      !.platforms = Registered(sms, discord),
                      !.connected = Connected(sms, discord),
                      !.running = TRUE,
                      !.tasks = [i \in 1..Len(Registered(sms, discord)) |->
                                    NewTask(Registered(sms, discord)[i])],
                      !.phase = "started"]
    /\ UNCHANGED <<processorVars, now, call, platformVars, driverVars>>

\* await app.start()
Start(sms, discord) ==
    /\ app.phase = "constructed"
    /\ app.shutdown = "idle"
    /\ app' = [app EXCEPT
                 !.setup = [sms |-> sms, discord |-> discord],
                 !.platforms = Registered(sms, discord),
                 !.connected = Connected(sms, discord),
                 !.running = TRUE,
                 !.tasks = [i \in 1..Len(Registered(sms, discord)) |->
                               NewTask(Registered(sms, discord)[i])],
                 !.phase = "started"]
    /\ UNCHANGED <<processorVars, now, call, platformVars, driverVars>>

\* how the await a monitor task is suspended in can end: receive_messages
\* returns no messages, returns messages or raises; _process_message_batch
\* and the sleeps return
AwaitOutcomes(pc) == IF pc = "receive" THEN {"empty", "messages", "error"} ELSE {"ok"}

\* where a monitor task that is resumed goes: it tests self.running when it
\* starts and after each sleep; after receive_messages it processes the
\* batch and sleeps the success delay, or sleeps the retry delay
MonitorNext(pc, running, outcome) ==
    IF pc = "receive"
    THEN (IF outcome = "messages" THEN "process"
          ELSE IF outcome = "empty" THEN "sleep"
          ELSE "retry")
    ELSE IF pc = "process" THEN "sleep"
    ELSE IF running THEN "receive"
    ELSE "done"

\* the event loop resumes the monitor task i, which runs to its next await
MonitorStep(i, outcome) ==
    /\ i \in 1..Len(app.tasks)
    /\ app.tasks[i].pc # "done"
    /\ ~app.tasks[i].cancelled
    /\ outcome \in AwaitOutcomes(app.tasks[i].pc)
    /\ app' = [app EXCEPT
                 !.tasks[i].pc = MonitorNext(app.tasks[i].pc, app.running, outcome)]
    /\ UNCHANGED <<processorVars, now, call, platformVars, driverVars>>

\* the event loop resumes the cancelled monitor task i: CancelledError is
\* raised at its await; `except Exception` does not catch it
MonitorCancelled(i) ==
    /\ i \in 1..Len(app.tasks)
    /\ app.tasks[i].pc # "done"
    /\ app.tasks[i].cancelled
    /\ app' = [app EXCEPT !.tasks[i].pc = "done"]
    /\ UNCHANGED <<processorVars, now, call, platformVars, driverVars>>

\* await app.shutdown(), up to asyncio.gather
ShutdownBegin ==
    /\ app.shutdown = "idle"
    /\ app' = [app EXCEPT
                 !.running = FALSE,
                 !.tasks = [i \in 1..Len(app.tasks) |-> [app.tasks[i] EXCEPT !.cancelled = TRUE]],
                 !.shutdown = "gather"]
    /\ UNCHANGED <<processorVars, now, call, platformVars, driverVars>>

\* asyncio.gather(*self.tasks, return_exceptions=True) returns
ShutdownGathered ==
    /\ app.shutdown = "gather"
    /\ \A i \in 1..Len(app.tasks) : app.tasks[i].pc = "done"
    /\ app' = [app EXCEPT
                 !.shutdown = IF Len(app.platforms) = 0 THEN "done" ELSE "disconnect"]
    /\ UNCHANGED <<processorVars, now, call, platformVars, driverVars>>

\* the record of one platform.disconnect() call
Disconnect(a, outcome) ==
    [ platform |-> a.platforms[a.next],
      raised |-> (outcome = "raise"),
      tasks_done |-> \A i \in 1..Len(a.tasks) : a.tasks[i].pc = "done" ]

\* a shutdown whose disconnect loop has no try/except
ShutdownDisconnect_Abort(outcome) ==
    /\ app.shutdown = "disconnect"
    /\ app' = [app EXCEPT
                 !.disconnects = Append(app.disconnects, Disconnect(app, outcome)),
                 !.next = app.next + 1,
                 !.raised = (outcome = "raise"),
                 !.shutdown = IF outcome = "raise" \/ app.next = Len(app.platforms)
                              THEN "done" ELSE "disconnect"]
    /\ UNCHANGED <<processorVars, now, call, platformVars, driverVars>>

\* one iteration of `for platform_name, platform in self.platforms.items()`:
\* try: await platform.disconnect() / except Exception
ShutdownDisconnect(outcome) ==
    /\ app.shutdown = "disconnect"
    /\ app' = [app EXCEPT
                 !.disconnects = Append(app.disconnects, Disconnect(app, outcome)),
                 !.next = app.next + 1,
                 !.shutdown = IF app.next = Len(app.platforms) THEN "done" ELSE "disconnect"]
    /\ UNCHANGED <<processorVars, now, call, platformVars, driverVars>>

\* the application after construction
InitApp ==
    /\ processor = NewProcessor
    /\ messages = <<>>
    /\ now = 0
    /\ call = NoCall
    /\ PlatformInit
    /\ DriverIdle
    /\ app = NewApp

NextApp ==
    \/ \E sms \in SmsSetups, discord \in DiscordSetups : Start(sms, discord)
    \/ \E i \in 1..Len(app.tasks), outcome \in {"ok", "empty", "messages", "error"} :
          MonitorStep(i, outcome)
    \/ \E i \in 1..Len(app.tasks) : MonitorCancelled(i)
    \/ ShutdownBegin
    \/ ShutdownGathered
    \/ \E outcome \in {"ok", "raise"} : ShutdownDisconnect(outcome)

SpecApp == InitApp /\ [][NextApp]_vars

-----------------------------------------------------------------------------
(* Properties of the classifier and the tagger *)

\* the message of the last direct call
Subject == messages[call.m]

\* 0.0 <= x <= 1.0
InUnit(x) == FLeq(F0_0, x) /\ FLeq(x, F1_0)

\* the numbers of keywords of each table that occur in the lower-cased
\* content, for every content of the runs
KeywordCounts ==
    [ content \in Contents |->
        [ urgent |-> CountIn(NewProcessor.urgent_keywords, StrLower(content)),
          high   |-> CountIn(NewProcessor.high_priority_keywords, StrLower(content)),
          low    |-> CountIn(NewProcessor.low_priority_keywords, StrLower(content)) ] ]

UrgentCount(message) == KeywordCounts[message.content].urgent
HighCount(message) == KeywordCounts[message.content].high
LowCount(message) == KeywordCounts[message.content].low

NoKeyword(message) ==
    UrgentCount(message) = 0 /\ HighCount(message) = 0 /\ LowCount(message) = 0

\* the conditions of the three adjustments of the branch without keywords
ShortSms(message) == message.platform = "sms" /\ Len(message.content) < 50
SmsWithPhone(message) ==
    /\ message.platform = "sms"
    /\ message.sms_metadata # None
    /\ message.sms_metadata[1].phone_number # ""
OffHours(message) == message.timestamp.hour \notin 8..18

\* C1: classify_priority returns a score in [0.0, 1.0] for every input, and
\* after any sequence of process_batch calls the urgency_score of every
\* message and of every emitted result lies in [0.0, 1.0].
C1_ScoreInUnitInterval ==
    /\ call.op = "classify" => InUnit(call.ret[2])
    /\ \A i \in DOMAIN messages : InUnit(messages[i].urgency_score)
    /\ call.op = "process_batch" =>
           \A k \in 1..Len(call.ret) : InUnit(call.ret[k].urgency_score)

\* a batch has processed a message with three or more urgent keywords, whose
\* unclamped score would exceed 1.0
C1_Witness ==
    /\ call.op = "process_batch"
    /\ Len(call.ret) = 1
    /\ call.ret[1].success
    /\ call.ret[1].urgency_score = F1_0
    /\ messages[1].urgency_score = F1_0
    /\ UrgentCount(messages[1]) >= 3

\* C2: a content with at least one urgent keyword is URGENT with score
\* min(1.0, 0.8 + 0.1 * urgent_count), at least 0.8, whatever high-priority
\* and low-priority keywords, platform, length, SMS metadata and hour.
C2_UrgentKeywordWins ==
    (call.op = "classify" /\ UrgentCount(Subject) > 0) =>
        /\ call.ret[1] = URGENT
        /\ call.ret[2] = FMin(F1_0, FAdd(F0_8, FMulInt(UrgentCount(Subject), F0_1)))
        /\ FLeq(F0_8, call.ret[2])

\* a message with urgent, high-priority and low-priority keywords was classified
C2_Witness ==
    /\ call.op = "classify"
    /\ UrgentCount(Subject) > 0
    /\ HighCount(Subject) > 0
    /\ LowCount(Subject) > 0
    /\ call.ret[1] = URGENT

\* the thresholds of the reference algorithm
ReferenceTier(score) ==
    IF ~FLess(score, F0_8) THEN URGENT
    ELSE IF ~FLess(score, F0_6) THEN HIGH
    ELSE IF ~FLess(F0_3, score) THEN LOW
    ELSE MEDIUM

\* step (4) of the reference algorithm: the adjusted default score, clamped
ReferenceDefault(message) ==
    LET a == F0_5
        b == IF ShortSms(message) THEN FAdd(a, F0_1) ELSE a
        c == IF SmsWithPhone(message) THEN FSub(b, F0_1) ELSE b
        d == IF OffHours(message) THEN FAdd(c, F0_1) ELSE c
    IN  IF FLess(d, F0_0) THEN F0_0 ELSE IF FLess(F1_0, d) THEN F1_0 ELSE d

\* the four-step reference algorithm
Reference(message) ==
    CASE UrgentCount(message) > 0 ->
            <<URGENT, FMin(F1_0, FAdd(F0_8, FMulInt(UrgentCount(message), F0_1)))>>
      [] UrgentCount(message) = 0 /\ HighCount(message) > 0 ->
            <<HIGH, FMin(F0_8, FAdd(F0_6, FMulInt(HighCount(message), F0_1)))>>
      [] UrgentCount(message) = 0 /\ HighCount(message) = 0 /\ LowCount(message) > 0 ->
            <<LOW, FMax(F0_1, FSub(F0_3, FMulInt(LowCount(message), F0_1)))>>
      [] NoKeyword(message) ->
            <<ReferenceTier(ReferenceDefault(message)), ReferenceDefault(message)>>

C4_HighStrictlyBelowUrgent ==
    (call.op = "classify" /\ UrgentCount(Subject) = 0 /\ HighCount(Subject) > 0) =>
        /\ call.ret[1] = HIGH
        /\ FLeq(F0_6, call.ret[2])
        /\ FLess(call.ret[2], F0_8)

TagOrder ==
    <<"meeting", "financial", "security", "delivery",
      "contains-link", "contains-phone", "time-sensitive">>

\* the predicate of a tag on the lower-cased content
TagPredicate(tag, content) ==
    CASE tag = "meeting" -> AnyIn(<<"meeting", "call", "zoom", "teams">>, content)
      [] tag = "financial" -> AnyIn(<<"payment", "invoice", "bill", "charge">>, content)
      [] tag = "security" -> AnyIn(<<"password", "login", "security", "account">>, content)
      [] tag = "delivery" -> AnyIn(<<"delivery", "package", "shipped", "tracking">>, content)
      [] tag = "contains-link" -> HasUrl(content)
      [] tag = "contains-phone" -> HasPhone(content)
      [] tag = "time-sensitive" -> AnyIn(<<"today", "tomorrow", "asap", "urgent">>, content)

\* the tags of TagOrder whose predicate holds, in that order
ExpectedTags(content) ==
    LET Holds(tag) == TagPredicate(tag, content)
    IN  SelectSeq(TagOrder, Holds)

\* the expected tags of every content of the runs
ExpectedTagsOf == [ content \in Contents |-> ExpectedTags(StrLower(content)) ]

\* C6: extract_context_tags returns 'platform:<platform value>' followed by
\* the tags meeting, financial, security, delivery, contains-link,
\* contains-phone, time-sensitive in this order, each present if and only if
\* its predicate matches the lower-cased content: 1 to 8 elements, no duplicates.
C6_TagsInFixedOrder ==
    call.op = "tags" =>
        /\ call.ret = <<"platform:" \o Subject.platform>> \o ExpectedTagsOf[Subject.content]
        /\ Len(call.ret) \in 1..8
        /\ \A i, j \in 1..Len(call.ret) : i # j => call.ret[i] # call.ret[j]

\* a content with capitals and a time-sensitive word was tagged
C6_Witness ==
    /\ call.op = "tags"
    /\ Len(call.ret) >= 2
    /\ call.ret[Len(call.ret)] = "time-sensitive"
    /\ StrLower(Subject.content) # Subject.content

\* the message with its classification and processing fields reset
Defaults(message) ==
    [ message EXCEPT !.priority = MEDIUM,
                     !.urgency_score = F0_5,
                     !.context_tags = <<>>,
                     !.processed = FALSE,
                     !.processing_timestamp = None ]

\* C7: classify_priority and extract_context_tags are pure: a call leaves
\* every field of every message and the three keyword tables unchanged, and
\* what it returns is a function of the message that does not depend on its
\* priority, urgency_score, context_tags or processed fields, so that repeated
\* calls return identical results.
C7_Pure ==
    /\ [][ call'.op \in {"classify", "tags"} =>
             /\ messages' = messages
             /\ processor' = processor
             /\ (call.op = call'.op /\ call.m = call'.m) => call'.ret = call.ret ]_vars
    /\ [](processor = NewProcessor)
    /\ [](call.op = "classify" => call.ret = Classify(processor, Defaults(Subject)))
    /\ [](call.op = "tags" => call.ret = Tags(processor, Defaults(Subject)))

\* the tagger was called on a message that process_batch has processed
C7_Witness ==
    /\ call.op = "tags"
    /\ Subject.processed
    /\ Subject.priority # MEDIUM
    /\ Len(Subject.context_tags) >= 2
    /\ call.ret = Subject.context_tags

-----------------------------------------------------------------------------
(* Properties of process_batch *)

\* the position in the result list of the result of the message at position
\* p of the batch: the messages before it that are processed give no result
ResultIndex(batch, p, msgs) == Cardinality({ q \in 1..p : ~msgs[batch[q]].processed })

\* C8: process_batch on a batch of processed messages returns an empty list
\* and leaves every message unchanged; an already-processed message in any
\* batch gives no result and is not modified.
C8_SkipLaw ==
    [][ call'.op = "process_batch" =>
          /\ \A p \in 1..Len(call'.batch) :
                messages[call'.batch[p]].processed =>
                    /\ messages'[call'.batch[p]] = messages[call'.batch[p]]
                    /\ \A k \in 1..Len(call'.ret) :
                          call'.ret[k].message_id # messages[call'.batch[p]].id
          /\ (\A p \in 1..Len(call'.batch) : messages[call'.batch[p]].processed) =>
                (call'.ret = <<>> /\ messages' = messages)
          /\ Len(call'.ret) = ResultIndex(call'.batch, Len(call'.batch), messages) ]_vars

\* a batch of two processed messages was processed again
C8_Witness ==
    /\ call.op = "process_batch"
    /\ Len(call.batch) = 2
    /\ \A p \in 1..2 : messages[call.batch[p]].processed /\ call.faults[p] = NoFault
    /\ call.ret = <<>>

\* C9: for an unprocessed message whose classification and tagging return,
\* process_batch stores the values classify_priority and extract_context_tags
\* return in priority, urgency_score and context_tags, sets processed and a
\* non-null processing_timestamp, and appends a result with the message's id,
\* success = true, error = null and the values stored on the message.
C9_SuccessPath ==
    [][ call'.op = "process_batch" =>
          \A p \in 1..Len(call'.batch) :
             (~messages[call'.batch[p]].processed /\ call'.faults[p] = NoFault) =>
                LET old == messages[call'.batch[p]]
                    new == messages'[call'.batch[p]]
                    k   == ResultIndex(call'.batch, p, messages)
                IN  /\ new.priority = Classify(processor, old)[1]
                    /\ new.urgency_score = Classify(processor, old)[2]
                    /\ new.context_tags = Tags(processor, old)
                    /\ new.processed
                    /\ new.processing_timestamp # None
                    /\ k <= Len(call'.ret)
                    /\ call'.ret[k].message_id = old.id
                    /\ call'.ret[k].success
                    /\ call'.ret[k].error = None
                    /\ call'.ret[k].priority_assigned = new.priority
                    /\ call'.ret[k].urgency_score = new.urgency_score
                    /\ call'.ret[k].context_tags = new.context_tags ]_vars

\* a batch classified and tagged two messages, the second one after the first
C9_Witness ==
    /\ call.op = "process_batch"
    /\ Len(call.ret) = 2
    /\ \A k \in 1..2 :
          /\ call.ret[k].success
          /\ messages[call.batch[k]].processed
          /\ messages[call.batch[k]].context_tags = call.ret[k].context_tags
          /\ Len(call.ret[k].context_tags) >= 2
    /\ call.ret[1].priority_assigned # call.ret[2].priority_assigned

\* C10: when classify_priority or extract_context_tags raises for a message,
\* process_batch leaves the message unchanged and appends a failure result:
\* success = false, priority_assigned = MEDIUM, urgency_score = 0.5,
\* context_tags = [], error = the exception's message; a result has a non-null
\* error if and only if its success is false.
C10_FailurePath ==
    /\ [][ call'.op = "process_batch" =>
             \A p \in 1..Len(call'.batch) :
                (~messages[call'.batch[p]].processed /\ call'.faults[p] # NoFault) =>
                   LET old == messages[call'.batch[p]]
                       k   == ResultIndex(call'.batch, p, messages)
                   IN  /\ messages'[call'.batch[p]] = old
                       /\ k <= Len(call'.ret)
                       /\ call'.ret[k].message_id = old.id
                       /\ ~call'.ret[k].success
                       /\ call'.ret[k].priority_assigned = MEDIUM
                       /\ call'.ret[k].urgency_score = F0_5
                       /\ call'.ret[k].context_tags = <<>>
                       /\ call'.ret[k].error = <<call'.faults[p].text>> ]_vars
    /\ [](call.op = "process_batch" =>
             \A k \in 1..Len(call.ret) : (call.ret[k].error # None) <=> ~call.ret[k].success)

\* a batch in which the classifier raised for one message and returned for another
C10_Witness ==
    /\ call.op = "process_batch"
    /\ Len(call.ret) = 2
    /\ \E k \in 1..2 :
          /\ ~call.ret[k].success
          /\ call.ret[k].error = <<"Test error">>
          /\ ~messages[call.batch[k]].processed
          /\ messages[call.batch[k]].processing_timestamp = None
          /\ call.ret[3 - k].success

\* the positions of a batch whose message is unprocessed, in batch order
UnprocessedPositions(batch, msgs) ==
    SelectSeq([p \in 1..Len(batch) |-> p], LAMBDA p : ~msgs[batch[p]].processed)

\* C11: process_batch returns exactly one result for each message of the
\* batch that was unprocessed when the call started, in batch order, whatever
\* calls raise; the result of a message is a success exactly when its own
\* calls returned, so a failure changes the outcome of no later message.
C11_PerItemIsolation ==
    [][ call'.op = "process_batch" =>
          LET todo == UnprocessedPositions(call'.batch, messages)
          IN  /\ Len(call'.ret) = Len(todo)
              /\ \A k \in 1..Len(todo) :
                    k <= Len(call'.ret) =>
                       /\ call'.ret[k].message_id = messages[call'.batch[todo[k]]].id
                       /\ call'.ret[k].success <=> (call'.faults[todo[k]] = NoFault)
                       /\ messages'[call'.batch[todo[k]]].processed
                             <=> (call'.faults[todo[k]] = NoFault) ]_vars

\* a batch in which the calls raised for the first message only: a failure
\* result, then a success result
C11_Witness ==
    /\ call.op = "process_batch"
    /\ Len(call.batch) = MaxBatch
    /\ Len(call.ret) = MaxBatch
    /\ call.faults[1] # NoFault
    /\ ~call.ret[1].success
    /\ \A k \in 2..MaxBatch :
          /\ call.faults[k] = NoFault
          /\ call.ret[k].success
          /\ call.ret[k].message_id = messages[call.batch[k]].id
          /\ messages[call.batch[k]].processed

\* C12: for every message that entered with processed = false and no
\* processing_timestamp, in every reachable state: processed holds if and
\* only if processing_timestamp is set, if and only if a success result with
\* the classifier's priority, urgency_score and context_tags was emitted for
\* the message.
C12_ProcessedIffClassified ==
    /\ [](\A i \in DOMAIN messages :
             /\ messages[i].processed <=> (messages[i].processing_timestamp # None)
             /\ messages[i].processed =>
                   /\ <<messages[i].priority, messages[i].urgency_score>>
                         = Classify(processor, Defaults(messages[i]))
                   /\ messages[i].context_tags = Tags(processor, Defaults(messages[i]))
             /\ ~messages[i].processed => messages[i] = Defaults(messages[i]))
    /\ [][ \A i \in DOMAIN messages :
              (~messages[i].processed /\ messages'[i].processed)
                 <=> ( /\ call'.op = "process_batch"
                       /\ \E k \in 1..Len(call'.ret) :
                             /\ call'.ret[k].message_id = messages[i].id
                             /\ call'.ret[k].success
                             /\ call'.ret[k].priority_assigned = Classify(processor, messages[i])[1]
                             /\ call'.ret[k].urgency_score = Classify(processor, messages[i])[2]
                             /\ call'.ret[k].context_tags = Tags(processor, messages[i]) ) ]_vars

\* the second call processed one message while another is still unprocessed
C12_Witness ==
    /\ now = 2
    /\ \E i, j \in DOMAIN messages :
          /\ messages[i].processed
          /\ messages[i].processing_timestamp = <<1>>
          /\ messages[i].priority # MEDIUM
          /\ ~messages[j].processed
          /\ messages[j].processing_timestamp = None
    /\ call.op = "process_batch"
    /\ \E k \in 1..Len(call.ret) : call.ret[k].success

-----------------------------------------------------------------------------
(* Properties of the platform adapters *)

\* C13: for every adapter, when the provider returns the same data on two
\* consecutive receive_messages calls, the second call returns an empty list
C13_SecondCallEmpty ==
    [][ ( /\ call.op = "receive_messages"
          /\ call'.op = "receive_messages"
          /\ call'.adapter = call.adapter
          /\ call.response.kind = "ok"
          /\ call'.response = call.response )
        => call'.ret = <<>> ]_vars

\* C14: for every adapter, a provider or network error during receive_messages
\* never propagates: the call returns an empty list and leaves the seen-set
\* unchanged
C14_ReceiveErrorContained ==
    [][ ( /\ call'.op = "receive_messages"
          /\ call'.response.kind # "ok" )
        => ( /\ ~call'.raised
             /\ call'.ret = <<>>
             /\ processed_message_ids' = processed_message_ids ) ]_vars

\* C15: send_message never throws: for every adapter and every kind of failure
\* it returns false, and it returns true only when the provider confirmed
\* acceptance
C15_SendNeverThrows ==
    [][ call'.op = "send_message"
        => ( /\ ~call'.raised
             /\ call'.ret \in {<<TRUE>>, <<FALSE>>}
             /\ call'.response.kind # "ok" => call'.ret = <<FALSE>>
             /\ call'.ret = <<TRUE>> =>
                    /\ call'.adapter = "sms"
                    /\ call'.response = [kind |-> "ok", success |-> TRUE] ) ]_vars

\* C16: for every adapter, get_message_history(limit, since) returns at most
\* limit messages and, when since is given, no message with a timestamp
\* earlier than since
C16_BoundedHistory ==
    [][ ( /\ call'.op = "get_message_history"
          /\ ~call'.raised )
        => ( /\ Len(call'.ret) <= call'.limit
             /\ call'.since # None =>
                    \A k \in 1..Len(call'.ret) :
                        call'.ret[k].timestamp.hour >= call'.since[1] ) ]_vars

-----------------------------------------------------------------------------
(* Properties of the polling loops *)

\* the loop has something to hand a batch to
HasCallback == driver.kind = "_monitor_platform" \/ driver.callback

C18_ErrorBackoffGreater ==
    [][ ( /\ iteration # None
          /\ iteration' # None
          /\ iteration[1].raised
          /\ ~iteration'[1].raised )
        => iteration[1].delay > iteration'[1].delay ]_vars

\* C19: for every interleaving of the loop's task and a stop_receiving call,
\* once stop_receiving has been called the loop eventually exits (and so
\* starts no further receive_messages call)
C19_StopEventuallyExits == stopped ~> (task = "done")

-----------------------------------------------------------------------------
(* Properties of the application *)

\* C20: shutdown sets running to false; no disconnect() is invoked until every
\* monitor task has terminated; then disconnect() is invoked on every
\* registered platform, also after another platform's disconnect raised;
\* shutdown never raises, and running is false after it
C20_OrderlyShutdown ==
    /\ app.shutdown # "idle" => ~app.running
    /\ ~app.raised
    /\ \A k \in 1..Len(app.disconnects) :
          /\ app.disconnects[k].tasks_done
          /\ k <= Len(app.platforms)
          /\ app.disconnects[k].platform = app.platforms[k]
    /\ app.disconnects # <<>> => \A i \in 1..Len(app.tasks) : app.tasks[i].pc = "done"
    /\ app.shutdown = "done" => Len(app.disconnects) = Len(app.platforms)

\* shutdown returned after disconnecting both platforms although the first
\* disconnect raised, with both monitor tasks cancelled and terminated
C20_Witness ==
    /\ app.shutdown = "done"
    /\ ~app.running
    /\ Len(app.platforms) = 2
    /\ Len(app.disconnects) = 2
    /\ app.disconnects[1].raised
    /\ ~app.disconnects[2].raised
    /\ \A i \in 1..2 : app.tasks[i].cancelled /\ app.tasks[i].pc = "done"

\* the platforms in self.platforms
RegisteredSet == { app.platforms[k] : k \in 1..Len(app.platforms) }

\* C21: a failing connect() never aborts start(); after start() has returned
\* running is true (until shutdown), a platform is registered only if it is
\* enabled and its connect() succeeded, a disabled or failed platform is
\* absent, and there is exactly one monitor task per registered platform
C21_StartupDegradation ==
    /\ app.phase \in {"constructed", "started"}
    /\ app.phase = "started" =>
          /\ app.shutdown = "idle" => app.running
          /\ \A p \in RegisteredSet :
                /\ app.setup[p] \notin {"disabled", "connect_fails"}
                /\ p \in app.connected
          /\ \A p \in {"sms", "discord"} :
                app.setup[p] \in {"disabled", "connect_fails"} => p \notin RegisteredSet
          /\ Len(app.tasks) = Len(app.platforms)
          /\ \A i \in 1..Len(app.tasks) : app.tasks[i].platform = app.platforms[i]
          /\ \A i, j \in 1..Len(app.platforms) :
                app.platforms[i] = app.platforms[j] => i = j

\* start() returned with the SMS connect() failed and Discord registered:
\* running, one monitor task, for Discord
C21_Witness ==
    /\ app.phase = "started"
    /\ app.shutdown = "idle"
    /\ app.setup = [sms |-> "connect_fails", discord |-> "ok"]
    /\ app.running
    /\ app.platforms = <<"discord">>
    /\ Len(app.tasks) = 1

\* C30: every adapter whose connect() succeeded during start() has had
\* disconnect() invoked on it when a subsequent shutdown() has returned
C30_NoAdapterLeftOpen ==
    (app.phase = "started" /\ app.shutdown = "done") =>
        \A p \in app.connected :
            \E k \in 1..Len(app.disconnects) : app.disconnects[k].platform = p

-----------------------------------------------------------------------------
(* Properties of repeated and interleaved process_batch calls *)

\* the positions of the success results for the message with this id
SuccessesFor(ret, id) == { k \in 1..Len(ret) : ret[k].success /\ ret[k].message_id = id }

\* C22: over any sequence of process_batch calls on one MessageProcessor
\* (process_batch has no await, so the calls of several monitor tasks
\* interleave as whole calls) a message gets at most one success result:
\* a call emits at most one, only for a message that was unprocessed and is
\* processed afterwards, and none for a processed message, whose priority,
\* urgency_score, context_tags and processing_timestamp never change again
C22_ClassifiedAtMostOnce ==
    [][ call'.op = "process_batch" =>
          \A m \in DOMAIN messages :
             /\ Cardinality(SuccessesFor(call'.ret, messages[m].id)) <= 1
             /\ SuccessesFor(call'.ret, messages[m].id) # {} =>
                   /\ ~messages[m].processed
                   /\ messages'[m].processed
                   /\ messages[m].processing_timestamp = None
             /\ messages[m].processed =>
                   /\ SuccessesFor(call'.ret, messages[m].id) = {}
                   /\ messages'[m].processed
                   /\ messages'[m].priority = messages[m].priority
                   /\ messages'[m].urgency_score = messages[m].urgency_score
                   /\ messages'[m].context_tags = messages[m].context_tags
                   /\ messages'[m].processing_timestamp = messages[m].processing_timestamp
             /\ messages[m].processing_timestamp # None =>
                   messages'[m].processing_timestamp = messages[m].processing_timestamp ]_vars

\* a message classified by the first call was in the batch of the second
\* call, which classified another message and left the first as it was
C22_Witness ==
    /\ now = 2
    /\ call.op = "process_batch"
    /\ Len(call.batch) = 2
    /\ messages[call.batch[1]].processing_timestamp = <<0>>
    /\ messages[call.batch[2]].processing_timestamp = <<1>>
    /\ SuccessesFor(call.ret, messages[call.batch[1]].id) = {}
    /\ SuccessesFor(call.ret, messages[call.batch[2]].id) = {1}

\* a view that lists every message of the batch
unprocessed_messages_All(batch, msgs) == [ k \in 1..Len(batch) |-> msgs[batch[k]] ]

\* MessageBatch.unprocessed_messages: [msg for msg in self.messages if not msg.processed]
unprocessed_messages(batch, msgs) ==
    LET positions == SelectSeq(batch, LAMBDA b : ~msgs[b].processed)
    IN  [ k \in 1..Len(positions) |-> msgs[positions[k]] ]

\* the ids of the messages of a list, and of the failure results of a result list
IdsOf(list) == [ k \in 1..Len(list) |-> list[k].id ]
FailureIds(ret) ==
    LET failures == SelectSeq(ret, LAMBDA r : ~r.success)
    IN  [ k \in 1..Len(failures) |-> failures[k].message_id ]

\* C23: after process_batch returns, batch.unprocessed_messages is exactly the
\* ordered list of the messages that got a failure result in that call, and
\* resubmitting the same batch gives results for those messages only
C23_FailedStayRetryable ==
    [][ call'.op = "process_batch" =>
          /\ IdsOf(unprocessed_messages(call'.batch, messages')) = FailureIds(call'.ret)
          /\ (call.op = "process_batch" /\ call'.batch = call.batch) =>
                /\ [ k \in 1..Len(call'.ret) |-> call'.ret[k].message_id ] = FailureIds(call.ret)
                /\ IdsOf(unprocessed_messages(call.batch, messages)) = FailureIds(call.ret) ]_vars

\* the batch was submitted before: its first message is processed since the
\* first call, its second message got the only result of this call, a
\* failure, and is the only unprocessed message of the batch
C23_Witness ==
    /\ now = 2
    /\ call.op = "process_batch"
    /\ Len(call.batch) = 2
    /\ messages[call.batch[1]].processing_timestamp = <<0>>
    /\ Len(call.ret) = 1
    /\ ~call.ret[1].success
    /\ call.ret[1].message_id = messages[call.batch[2]].id
    /\ unprocessed_messages(call.batch, messages) = <<messages[call.batch[2]]>>

-----------------------------------------------------------------------------
(* Properties of the retry behaviour of the polling loops *)

\* C24: when receive_messages of the SMS adapter hits a transient provider or
\* network fetch error, start_receiving and _monitor_platform wait the
\* 5-time-unit error back-off before the next receive_messages call
C24_FetchErrorBacksOff ==
    ( /\ iteration # None
      /\ driver.adapter = "sms"
      /\ driver.kind \in {"start_receiving", "_monitor_platform"}
      /\ iteration[1].fetch = "request_error" )
    => iteration[1].delay = RetryDelay

\* the last iteration: whether it raised, what happened inside the callback,
\* and the parity of its receive_messages call ("none" before the first one)
LastRaised == iteration # None /\ iteration[1].raised
LastCallback == IF iteration = None THEN "none" ELSE iteration[1].callback
LastTurn == IF iteration = None THEN "none" ELSE ToString(iteration[1].turn)

\* C25: in start_receiving and _monitor_platform an exception raised by
\* receive_messages or by the callback never terminates the loop: the task
\* ends only when it finds the running flag false; an exception raised inside
\* _process_message_batch does not reach the monitor loop; and after an
\* iteration that raised, another receive_messages call is eventually made
\* unless the flag has become false, however many iterations raised before
C25_SleepAndContinue ==
    /\ [][ (task = "running" /\ task' = "done") => ~is_running ]_vars
    /\ [] ( (driver.kind = "_monitor_platform" /\ LastCallback = "raise")
            => ( /\ ~LastRaised
                 /\ iteration[1].delay = Delay(driver, FALSE) ) )
    /\ \A b \in {"0", "1"} :
          ( /\ driver.kind \in {"start_receiving", "_monitor_platform"}
            /\ task = "running"
            /\ LastRaised
            /\ LastTurn = b )
          ~> ( ~is_running \/ LastTurn # b )

\* the callback of start_receiving raised during the second iteration, and
\* the loop is still running
C25_Witness ==
    /\ driver.kind = "start_receiving"
    /\ task = "running"
    /\ is_running
    /\ iteration # None
    /\ iteration[1].callback = "raise"
    /\ iteration[1].raised
    /\ iteration[1].turn = 0

-----------------------------------------------------------------------------
(* Further properties of the classifier *)

\* C26: in every branch of classify_priority the returned priority is the
\* tier the score-to-tier map assigns to the returned score: URGENT iff
\* score >= 0.8, HIGH iff 0.6 <= score < 0.8, LOW iff score <= 0.3, MEDIUM
\* otherwise
C26_ScoreDrivesTier ==
    call.op = "classify" =>
        /\ call.ret[1] = URGENT <=> FLeq(F0_8, call.ret[2])
        /\ call.ret[1] = HIGH <=> (FLeq(F0_6, call.ret[2]) /\ FLess(call.ret[2], F0_8))
        /\ call.ret[1] = LOW <=> FLeq(call.ret[2], F0_3)
        /\ call.ret[1] = MEDIUM <=> (FLess(F0_3, call.ret[2]) /\ FLess(call.ret[2], F0_6))

\* the score _classify_priority returns for every message of the runs
ScoreTable == [ message \in ClassifierInputs |-> ClassifyPriority(NewProcessor, message)[2] ]

\* C28: a message timestamped outside business hours never gets a lower
\* score than the same message timestamped inside them, and an SMS with fewer
\* than 50 characters never gets a lower score than the same SMS (same
\* keyword hits, SMS metadata and hour) with 50 or more characters
C28_AdjustmentsMonotone ==
    call.op = "classify" =>
        /\ OffHours(Subject) =>
              \A h \in 8..18 :
                 FLeq(ScoreTable[[Subject EXCEPT !.timestamp.hour = h]], call.ret[2])
        /\ ShortSms(Subject) =>
              \A c \in Contents :
                 (Len(c) >= 50 /\ KeywordCounts[c] = KeywordCounts[Subject.content]) =>
                    FLeq(ScoreTable[[Subject EXCEPT !.content = c]], call.ret[2])

\* a short SMS without keywords sent at night scored strictly higher than
\* the same SMS at noon and than a long SMS without keywords at night
C28_Witness ==
    /\ call.op = "classify"
    /\ ShortSms(Subject)
    /\ NoKeyword(Subject)
    /\ Subject.timestamp.hour = 23
    /\ FLess(ScoreTable[[Subject EXCEPT !.timestamp.hour = 12]], call.ret[2])
    /\ \E c \in Contents :
          /\ Len(c) >= 50
          /\ KeywordCounts[c] = KeywordCounts[Subject.content]
          /\ FLess(ScoreTable[[Subject EXCEPT !.content = c]], call.ret[2])

\* the floats 0.4 and 0.7
F0_4 == <<1, 52428, 838860, 838864>>
F0_7 == <<1, 91750, 419430, 419424>>

\* C29: for a content without keywords the score is one of 0.4, 0.5, 0.6, 0.7
\* (all inside (0, 1), so the clamp left the sum as it was) and the tier is
\* MEDIUM or HIGH; hence a message classified URGENT or LOW has a keyword,
\* whatever its platform, length, SMS metadata and hour
C29_NoKeywordScores ==
    /\ (call.op = "classify" /\ NoKeyword(Subject)) =>
          /\ call.ret[2] \in {F0_4, F0_5, F0_6, F0_7}
          /\ FLess(F0_0, call.ret[2]) /\ FLess(call.ret[2], F1_0)
          /\ call.ret[1] \in {MEDIUM, HIGH}
    /\ (call.op = "classify" /\ call.ret[1] \in {URGENT, LOW}) =>
          UrgentCount(Subject) + HighCount(Subject) + LowCount(Subject) > 0

\* a short SMS without keywords and without phone number, sent at night,
\* got the highest score of the branch and was classified HIGH
C29_Witness ==
    /\ call.op = "classify"
    /\ NoKeyword(Subject)
    /\ ShortSms(Subject)
    /\ ~SmsWithPhone(Subject)
    /\ OffHours(Subject)
    /\ call.ret = <<HIGH, F0_7>>

-----------------------------------------------------------------------------
(* Properties of the seen-set of the SMS adapter *)

\* a receive_messages or get_message_history call on the SMS adapter
SmsFetch(c) == c.adapter = "sms" /\ c.op \in {"receive_messages", "get_message_history"}

\* the ids of the messages a call returned
ReturnedIds(c) == { c.ret[k].id : k \in 1..Len(c.ret) }

\* the ids of the messages made from the provider ids in seen
UnifiedIds(seen) == { "sms_" \o id : id \in seen }

\* C27: over any sequence of receive_messages and get_message_history calls
\* of the SMS adapter with arbitrary provider responses, processed_message_ids
\* never shrinks and grows by exactly the provider ids of the messages the
\* call returns (so it is the set of the ids returned so far), no id is
\* returned twice, and a record whose conversion fails is not added
C27_SeenIsReturned ==
    [][ SmsFetch(call') =>
          /\ processed_message_ids \subseteq processed_message_ids'
          /\ UnifiedIds(processed_message_ids') =
                 UnifiedIds(processed_message_ids) \cup ReturnedIds(call')
          /\ ReturnedIds(call') \cap UnifiedIds(processed_message_ids) = {}
          /\ Cardinality(ReturnedIds(call')) = Len(call'.ret) ]_vars

\* the same for the calls whose response holds JSON objects only
C27_SeenIsReturned_Objects ==
    [][ ( /\ SmsFetch(call')
          /\ \A k \in 1..Len(call'.response.data) : IsDict(call'.response.data[k]) ) =>
          /\ processed_message_ids \subseteq processed_message_ids'
          /\ UnifiedIds(processed_message_ids') =
                 UnifiedIds(processed_message_ids) \cup ReturnedIds(call')
          /\ ReturnedIds(call') \cap UnifiedIds(processed_message_ids) = {}
          /\ Cardinality(ReturnedIds(call')) = Len(call'.ret)
          /\ \A k \in 1..Len(call'.response.data) :
                ( /\ ~SmsConvertible(call'.response.data[k])
                  /\ call'.response.data[k]._id \notin processed_message_ids' ) =>
                   "sms_" \o call'.response.data[k]._id \notin ReturnedIds(call') ]_vars

====
